---- MODULE Spec2Model ----
(***************************************************************************)
(* Model of the ryokan availability checker: the notification state store  *)
(* (ryokan_check/state.py), the poll loop (ryokan_check/cli.py), the       *)
(* scraper sessions and the two availability parsers                       *)
(* (miyakowasure_check/scraper.py, properties/miyamaso/scraper.py).        *)
(*                                                                         *)
(* Time is counted in whole hours.  A timestamp string written by          *)
(* datetime.isoformat() is the pair <<"iso", t>>; any other text stored    *)
(* where a timestamp is expected is <<"txt", 0>>.                          *)
(***************************************************************************)
EXTENDS Integers, Sequences, FiniteSets, TLC

\* ------------------------------------------------------------------ bounds

\* The wall clock stops advancing at MaxClock hours.
MaxClock == 26

\* ------------------------------------------------------- program constants

\* NotificationState.cooldown_hours
cooldown_hours == 24

\* ------------------------------------------------------------- the catalog

MIYAKOWASURE == "miyakowasure"
MIYAMASO == "miyamaso"

\* Property enum, in declaration order
Property == <<MIYAKOWASURE, MIYAMASO>>

Properties == {MIYAKOWASURE, MIYAMASO}

\* MiyakowasureRoom, room ids in declaration order
MiyakowasureRoom == <<"00008", "00006", "00007", "00005", "00001", "00002">>

\* MiyamasoRoom, room ids in declaration order
MiyamasoRoom == <<"25112", "25114", "25113">>

Range(s) == {s[i] : i \in 1..Len(s)}

\* PropertyConfig.get_rooms
get_rooms(prop) == IF prop = MIYAKOWASURE THEN MiyakowasureRoom ELSE MiyamasoRoom

\* Python's None
None == "None"

\* ------------------------------------------------------ texts and aliases

\* A text typed by the user: its letters in lower case without surrounding
\* blanks (base), whether it was typed with capitals (upper) and whether
\* it was typed with surrounding blanks (padded)
Text(base, upper, padded) == [base |-> base, upper |-> upper, padded |-> padded]

\* A text typed in lower case without blanks, as the literals of the code
Lit(base) == Text(base, FALSE, FALSE)

\* str.lower()
lower(s) == [s EXCEPT !.upper = FALSE]

\* str.strip()
strip(s) == [s EXCEPT !.padded = FALSE]

\* Property.from_string: the aliases table
PropertyAliases ==
    ("miyakowasure" :> MIYAKOWASURE) @@ ("miyamaso" :> MIYAMASO)
        @@ ("takamiya" :> MIYAMASO)

\* MiyakowasureRoom.from_string: the mapping table
MiyakowasureMapping ==
    ("tsubaki-view" :> "00008") @@ ("tsubaki_view" :> "00008")
        @@ ("momiji-vip" :> "00006") @@ ("momiji_vip" :> "00006")
        @@ ("vip" :> "00006")
        @@ ("momiji-twin" :> "00007") @@ ("momiji_twin" :> "00007")
        @@ ("twin" :> "00007")
        @@ ("momiji-river" :> "00005") @@ ("momiji_river" :> "00005")
        @@ ("momiji" :> "00005")
        @@ ("sakura-river" :> "00001") @@ ("sakura_river" :> "00001")
        @@ ("sakura" :> "00001")
        @@ ("tsubaki-toilet" :> "00002") @@ ("tsubaki_toilet" :> "00002")
        @@ ("tsubaki" :> "00002")

\* MiyamasoRoom.from_string: the mapping table
MiyamasoMapping ==
    ("hinakura" :> "25112") @@ ("hina" :> "25112") @@ ("villa" :> "25112")
        @@ ("rian" :> "25114") @@ ("rian-sansui" :> "25114")
        @@ ("rian_sansui" :> "25114") @@ ("sansui" :> "25114")
        @@ ("rian-maisonette" :> "25114") @@ ("rian_maisonette" :> "25114")
        @@ ("maisonette" :> "25114")
        @@ ("rian-japanese" :> "25113") @@ ("rian_japanese" :> "25113")
        @@ ("rian-jp" :> "25113")

\* mapping.get(text), None when the text is not a key as it stands
Get(mapping, s) ==
    IF s = Lit(s.base) /\ s.base \in DOMAIN mapping
    THEN mapping[s.base]
    ELSE None

\* Property.from_string
Property_from_string(s) == Get(PropertyAliases, strip(lower(s)))

\* MiyakowasureRoom.from_string
MiyakowasureRoom_from_string(s) == Get(MiyakowasureMapping, strip(lower(s)))

\* Mutant: the Miyamaso table also answers to a Miyakowasure alias
MiyamasoRoom_from_string_shared(s) ==
    Get(MiyamasoMapping @@ ("sakura" :> "25112"), strip(lower(s)))

\* MiyamasoRoom.from_string
MiyamasoRoom_from_string(s) == Get(MiyamasoMapping, strip(lower(s)))

\* Mutant: one room for every alias
parse_multiple_single(s) ==
    IF MiyamasoRoom_from_string(s) # None
    THEN <<MiyamasoRoom_from_string(s)>>
    ELSE <<>>

\* MiyamasoRoom.parse_multiple
parse_multiple(s) ==
    LET s_lower == strip(lower(s))
    IN  IF s_lower \in {Lit("rian"), Lit("rian-sansui"), Lit("rian_sansui"),
                        Lit("sansui")}
        THEN <<"25114", "25113">>
        ELSE IF MiyamasoRoom_from_string(s_lower) # None
             THEN <<MiyamasoRoom_from_string(s_lower)>>
             ELSE <<>>

\* PropertyConfig.parse_room
parse_room(prop, s) ==
    IF prop = MIYAKOWASURE
    THEN MiyakowasureRoom_from_string(s)
    ELSE MiyamasoRoom_from_string(s)

\* parse_properties, the loop over the comma-separated pieces: exit is
\* whether typer.Exit(1) was raised
RECURSIVE parse_properties_loop(_, _)
parse_properties_loop(pieces, properties) ==
    IF pieces = <<>>
    THEN [exit |-> FALSE, properties |-> properties]
    ELSE LET prop == Property_from_string(strip(Head(pieces)))
         IN  IF prop = None
             THEN [exit |-> TRUE, properties |-> <<>>]
             ELSE parse_properties_loop(Tail(pieces),
                      IF prop \in Range(properties) THEN properties
                      ELSE Append(properties, prop))

\* parse_properties; the value is given as its comma-separated pieces
parse_properties(value) ==
    IF Len(value) = 1 /\ lower(value[1]) = Lit("all")
    THEN [exit |-> FALSE, properties |-> Property]
    ELSE parse_properties_loop(value, <<>>)

\* parse_rooms_for_property, the loop over the comma-separated pieces
RECURSIVE parse_rooms_loop(_, _, _)
parse_rooms_loop(pieces, prop, rooms) ==
    IF pieces = <<>>
    THEN [exit |-> FALSE, rooms |-> rooms]
    ELSE LET r_stripped == strip(Head(pieces))
         IN  IF /\ prop = MIYAMASO
                /\ lower(r_stripped) \in {Lit("rian"), Lit("rian-sansui"),
                                          Lit("sansui")}
             THEN parse_rooms_loop(Tail(pieces), prop,
                                   rooms \o parse_multiple(r_stripped))
             ELSE LET room == parse_room(prop, r_stripped)
                  IN  IF room = None
                      THEN [exit |-> TRUE, rooms |-> <<>>]
                      ELSE parse_rooms_loop(Tail(pieces), prop,
                               IF room \in Range(rooms) THEN rooms
                               ELSE Append(rooms, room))

\* parse_rooms_for_property; room_str is given as its comma-separated
\* pieces
parse_rooms_for_property(room_str, prop) == parse_rooms_loop(room_str, prop, <<>>)

\* check(), the room filter: an unknown room ends the command only when
\* one property is selected; otherwise the property gets no filter
parse_room_filter(room, properties) ==
    LET parsed == [p \in Properties |-> parse_rooms_for_property(room, p)]
    IN  IF room = <<>>
        THEN [exit |-> FALSE, room_filter |-> [p \in Properties |-> <<>>]]
        ELSE [exit |-> Len(properties) = 1 /\ parsed[properties[1]].exit,
              room_filter |->
                 [p \in Properties |->
                     IF p \in Range(properties) /\ ~parsed[p].exit
                     THEN parsed[p].rooms ELSE <<>>]]

\* Mutant: any interval is accepted
post_init_any_interval(nights, guests, check_interval_minutes) ==
    IF nights < 1 \/ guests < 1 THEN "ValueError" ELSE "ok"

\* Config.__post_init__: whether it returns, or raises ValueError
post_init(nights, guests, check_interval_minutes) ==
    IF nights < 1 THEN "ValueError"
    ELSE IF guests < 1 THEN "ValueError"
    ELSE IF check_interval_minutes < 15 THEN "ValueError"
    ELSE "ok"

\* ------------------------------------------------- timestamps and the file

\* datetime.isoformat(): the text of an instant
isoformat(t) == <<"iso", t>>

\* Whether datetime.fromisoformat accepts the text
IsIso(s) == s[1] = "iso"

\* datetime.fromisoformat(): the instant of a text (IsIso(s) only)
fromisoformat(s) == s[2]

\* Text that is no timestamp
NotATimestamp == <<"txt", 0>>

\* The empty dict
EmptyMap == [k \in {} |-> isoformat(0)]

\* What a state file holds:
\*   kind "missing"          the file does not exist
\*        "invalid_json"     json.loads raises JSONDecodeError (garbage, empty
\*                           or truncated text)
\*        "not_object"       valid JSON, not an object (a list, a number, null)
\*        "no_notified"      an object without the key "notified"
\*        "notified_not_map" an object whose "notified" is not an object
\*        "map"              an object whose "notified" is the object entries
FileOf(kind, entries) == [kind |-> kind, entries |-> entries]

MissingFile == FileOf("missing", EmptyMap)

\* A file cut short while write_text was writing it
TruncatedFile == FileOf("invalid_json", EmptyMap)

\* json.dumps({"notified": notified}) as written by save()
json_dumps(notified) == FileOf("map", notified)

\* ----------------------------------------------------- NotificationState

\* RoomAvailability, the fields the state store and the loop read
RoomAvailability(prop, room, check_in, check_out, available) ==
    [property |-> prop, room |-> room, check_in |-> check_in,
     check_out |-> check_out, available |-> available]

\* NotificationState._make_key
make_key(room) == <<room.property, room.room, room.check_in, room.check_out>>

\* Mutant: sweeps nothing
cleanup_expired_keeps_all(notified, now) == notified

\* NotificationState._cleanup_expired: keeps the entries newer than the cutoff
cleanup_expired(notified, now) ==
    [k \in {x \in DOMAIN notified :
               fromisoformat(notified[x]) > now - cooldown_hours} |-> notified[k]]

\* Mutant: decides on the key's presence alone
should_notify_present(notified, key, now) == key \notin DOMAIN notified

\* Mutant: never suppresses
should_notify_always(notified, key, now) == TRUE

\* NotificationState.should_notify
should_notify(notified, key, now) ==
    IF key \notin DOMAIN notified
    THEN TRUE
    ELSE now - fromisoformat(notified[key]) > cooldown_hours

\* notified[key] = datetime.now().isoformat()
set_entry(notified, key, now) ==
    [k \in DOMAIN notified \cup {key} |->
        IF k = key THEN isoformat(now) ELSE notified[k]]

\* NotificationState.save: the swept map and the file written from it
save(notified, now) ==
    LET swept == cleanup_expired(notified, now)
    IN  [notified |-> swept, file |-> json_dumps(swept)]

\* NotificationState.mark_notified
mark_notified(notified, key, now) == save(set_entry(notified, key, now), now)

\* NotificationState.load on an instance holding `notified`:
\*   raised   whether load() raised
\*   shape    "map" when self.notified is a dict of timestamps afterwards,
\*            "raw" when it holds what json.loads returned, unswept
\*   notified self.notified afterwards (the entries, when it is a dict)
load(file, notified, now) ==
    CASE file.kind = "missing" ->
            [raised |-> FALSE, shape |-> "map", notified |-> notified]
      [] file.kind = "invalid_json" ->
            [raised |-> FALSE, shape |-> "map", notified |-> EmptyMap]
      [] file.kind = "not_object" ->
            \* data.get raises AttributeError, which load() does not catch
            [raised |-> TRUE, shape |-> "map", notified |-> notified]
      [] file.kind = "no_notified" ->
            [raised |-> FALSE, shape |-> "map",
             notified |-> cleanup_expired(EmptyMap, now)]
      [] file.kind = "notified_not_map" ->
            \* self.notified is assigned, then .items() raises AttributeError
            [raised |-> TRUE, shape |-> "raw", notified |-> EmptyMap]
      [] OTHER ->
            IF \E k \in DOMAIN file.entries : ~IsIso(file.entries[k])
            THEN \* self.notified is assigned, then fromisoformat raises
                 \* ValueError, which load() does not catch
                 [raised |-> TRUE, shape |-> "raw", notified |-> file.entries]
            ELSE [raised |-> FALSE, shape |-> "map",
                  notified |-> cleanup_expired(file.entries, now)]

\* The legacy key of a room and its dates: "{room_id}:{check_in}:{check_out}"
legacy_key(room) == <<room.room, room.check_in, room.check_out>>

\* f"miyakowasure:{key}" for every entry, the values as they are
Prefixed(entries) ==
    [k \in {<<MIYAKOWASURE>> \o x : x \in DOMAIN entries} |-> entries[Tail(k)]]

\* Mutant: writes the new file whether or not it exists
migrate_overwrites(old_file, new_file) ==
    IF old_file.kind = "map"
    THEN [raised |-> FALSE, file |-> FileOf("map", Prefixed(old_file.entries))]
    ELSE [raised |-> FALSE, file |-> new_file]

\* migrate_old_state_file: what it leaves as new file, and whether it
\* raised.  The legacy file can also hold JSON that is a list or a string
\* (kind "json_list": `"notified" in data` is False) or a number or null
\* (kind "json_number": `"notified" in data` raises TypeError)
migrate_old_state_file(old_file, new_file) ==
    IF old_file.kind = "missing" \/ new_file.kind # "missing"
    THEN [raised |-> FALSE, file |-> new_file]
    ELSE CASE old_file.kind = "invalid_json" ->
                 \* JSONDecodeError is caught: nothing is written
                 [raised |-> FALSE, file |-> new_file]
           [] old_file.kind = "json_list" ->
                 \* the data is written as it is
                 [raised |-> FALSE, file |-> FileOf("not_object", EmptyMap)]
           [] old_file.kind = "json_number" ->
                 [raised |-> TRUE, file |-> new_file]
           [] old_file.kind = "no_notified" ->
                 [raised |-> FALSE, file |-> FileOf("no_notified", EmptyMap)]
           [] old_file.kind = "notified_not_map" ->
                 \* .items() raises AttributeError, which is not caught
                 [raised |-> TRUE, file |-> new_file]
           [] OTHER ->
                 [raised |-> FALSE,
                  file |-> FileOf("map", Prefixed(old_file.entries))]

\* ------------------------------------------------------------ CheckResult

\* The texts str(e) can be; an exception without a message gives ""
ErrorTexts == {"", "Timeout 60000ms exceeded"}

\* The error text of check_availability when no browser is open
BrowserNotInitialized == "Browser not initialized"

\* Python's truth value of CheckResult.error
Truthy(error) == error # None /\ error # ""

\* CheckResult
CheckResult(prop, rooms_checked, error) ==
    [property |-> prop, rooms_checked |-> rooms_checked, error |-> error]

\* SelectSeq without a lambda parameter: the available rooms, order kept
RECURSIVE available_rooms(_)
available_rooms(rooms_checked) ==
    IF rooms_checked = <<>>
    THEN <<>>
    ELSE (IF Head(rooms_checked).available THEN <<Head(rooms_checked)>> ELSE <<>>)
            \o available_rooms(Tail(rooms_checked))

\* ------------------------------------------------------------------ Config

\* Config, the fields the loop reads: the properties in order, the room
\* filter per property (<<>> when the property has none), whether
\* ntfy_topic is set, the dates and the guests
Config(properties, room_filter, ntfy_topic, check_in, nights, guests) ==
    [properties |-> properties, room_filter |-> room_filter,
     ntfy_topic |-> ntfy_topic, check_in_date |-> check_in, nights |-> nights,
     guests |-> guests]

\* Config.check_out_date
check_out_date(config) == config.check_in_date + config.nights

\* Config.rooms_to_check
rooms_to_check(config, prop) ==
    IF config.room_filter[prop] # <<>>
    THEN config.room_filter[prop]
    ELSE get_rooms(prop)

\* MiyakowasureRoom.max_guests (the limits table) and MiyamasoRoom.max_guests
max_guests(room) ==
    CASE room \in {"00008", "00001"} -> 3
      [] room = "00006" -> 4
      [] room \in {"00007", "00005", "00002"} -> 2
      [] OTHER -> 4

\* A warning text: the room it names (display_name), the room's max_guests
\* and the guests requested
Warning(room, guests) ==
    [room |-> room, max_guests |-> max_guests(room), guests |-> guests]

\* Mutant: warns at capacity too
validate_guests_at_capacity(cfg, prop) ==
    LET exceeded == SelectSeq(rooms_to_check(cfg, prop),
                              LAMBDA room : cfg.guests >= max_guests(room))
    IN  [i \in 1..Len(exceeded) |-> Warning(exceeded[i], cfg.guests)]

\* Config.validate_guests_for_property
validate_guests_for_property(cfg, prop) ==
    LET exceeded == SelectSeq(rooms_to_check(cfg, prop),
                              LAMBDA room : cfg.guests > max_guests(room))
    IN  [i \in 1..Len(exceeded) |-> Warning(exceeded[i], cfg.guests)]

\* Config.validate_guests_for_rooms, the loop over the properties
RECURSIVE validate_guests_loop(_, _)
validate_guests_loop(cfg, props) ==
    IF props = <<>>
    THEN <<>>
    ELSE validate_guests_for_property(cfg, Head(props))
            \o validate_guests_loop(cfg, Tail(props))

\* Config.validate_guests_for_rooms
validate_guests_for_rooms(cfg) == validate_guests_loop(cfg, cfg.properties)

\* The configurations explored, as check() builds them:
\* "--property all --room sakura" (Miyakowasure gets the filter, Miyamaso
\* its full catalog) and "--property miyamaso --room rian" (Miyamaso's
\* rian expands to both variants) with --ntfy-topic, and
\* "--property all --room sakura" without
Configs ==
    LET filter(room, properties) ==
            parse_room_filter(room, properties).room_filter
        sakura == filter(<<Lit("sakura")>>, Property)
        rian == filter(<<Lit("rian")>>, <<MIYAMASO>>)
    IN  { Config(Property, sakura, TRUE, 1, 1, 2),
          Config(<<MIYAMASO>>, rian, TRUE, 1, 1, 2),
          Config(Property, sakura, FALSE, 1, 1, 2) }

\* --------------------------------------------------------------- the state

VARIABLES
    pc,          \* where the process is
    clock,       \* datetime.now(), in hours
    config,      \* the Config of the run
    notified,    \* per property: NotificationState.notified, in memory
    file,        \* per property: the state file on disk
    prop_i,      \* run_check_loop: index of the property being checked
    playwright,  \* whether a Playwright driver is running
    browser,     \* whether a browser is open
    result,      \* _check_single_property: the CheckResult in hand
    room_i,      \* _check_single_property: index into available
    success,     \* _check_single_property: what send() returned
    abort_cause, \* the call whose exception ended the process
    delivered,   \* history: per key, when send() last returned True
    failed,      \* history: keys whose last send() returned False
    store,       \* a NotificationState driven directly, and its file
    parse,       \* a parser call: its input and what it returned
    interrupts,  \* history: how many times the process was interrupted
    legacy,      \* the legacy state file ~/.miyakowasure-state.json
    cli,         \* a run of the check command: its arguments and progress
    scrape       \* a call of BanScraper.check_availability, driven directly

vars == <<pc, clock, config, notified, file, prop_i, playwright, browser,
          result, room_i, success, abort_cause, delivered, failed, store,
          parse, interrupts, legacy, cli, scrape>>

\* The poll loop's variables, the clock apart
loop_vars == <<pc, config, notified, file, prop_i, playwright, browser,
               result, room_i, success, abort_cause, delivered, failed,
               interrupts, legacy, cli, scrape>>

\* What the poll loop leaves alone
aside == <<store, parse, interrupts, legacy, cli, scrape>>

\* No NotificationState is driven directly
NoStore == [notified |-> EmptyMap, file |-> MissingFile,
            fresh |-> [raised |-> FALSE, shape |-> "map", notified |-> EmptyMap],
            marks |-> EmptyMap, op |-> "none"]

\* No parser call is made
NoParse == [engine |-> "none", room |-> "", content |-> <<>>, done |-> FALSE,
            available |-> FALSE, price |-> <<>>, spots_left |-> <<>>]

\* The check command is not being run
NoCli == [stage |-> "none"]

\* BanScraper.check_availability is not driven directly
NoScrape == [stage |-> "none"]

\* A NotificationState per property, nothing loaded
FreshStates == [p \in Properties |-> EmptyMap]

NoResult == CheckResult(MIYAKOWASURE, <<>>, None)

\* The property being checked
Prop == config.properties[prop_i]

\* The available rooms of the result in hand
Available == available_rooms(result.rooms_checked)

\* --------------------------------------------------------- the poll loop

\* The process starts with a configuration and whatever is on disk
Init ==
    /\ pc = "start"
    /\ clock = 0
    /\ config \in Configs
    /\ notified = FreshStates
    /\ file = [p \in Properties |-> MissingFile]
    /\ prop_i = 1
    /\ playwright = FALSE
    /\ browser = FALSE
    /\ result = NoResult
    /\ room_i = 1
    /\ success = FALSE
    /\ abort_cause = "none"
    /\ delivered = EmptyMap
    /\ failed = {}
    /\ store = NoStore
    /\ parse = NoParse
    /\ interrupts = 0
    /\ legacy = MissingFile
    /\ cli = NoCli
    /\ scrape = NoScrape

\* run_check_loop up to the loop: the migration of the legacy state file,
\* then a NotificationState per configured property, each loaded from its
\* file
Start ==
    /\ pc = "start"
    /\ LET migration == migrate_old_state_file(legacy, file[MIYAKOWASURE])
           migrated == [file EXCEPT ![MIYAKOWASURE] = migration.file]
           loaded == [p \in Properties |->
                         IF p \in Range(config.properties)
                         THEN load(migrated[p], EmptyMap, clock)
                         ELSE [raised |-> FALSE, shape |-> "map",
                               notified |-> EmptyMap]]
       IN  IF migration.raised
           THEN /\ pc' = "aborted"
                /\ abort_cause' = "migrate"
                /\ UNCHANGED <<notified, file>>
           ELSE /\ file' = migrated
                /\ IF \E p \in Properties : loaded[p].raised
                   THEN /\ pc' = "aborted"
                        /\ abort_cause' = "load"
                        /\ UNCHANGED notified
                   ELSE /\ pc' = "enter"
                        /\ notified' = [p \in Properties |->
                                           loaded[p].notified]
                        /\ UNCHANGED abort_cause
    /\ prop_i' = 1
    /\ UNCHANGED <<clock, config, playwright, browser, result, room_i,
                   success, delivered, failed>>
    /\ UNCHANGED aside

\* BanScraper.__aenter__ (async with scraper_class(config)): start the
\* driver, launch the browser; an exception of either leaves the with
\* statement and run_check_loop
EnterSession ==
    /\ pc = "enter"
    /\ \E outcome \in {"ok", "start_raises", "launch_raises"} :
         /\ playwright' = (outcome # "start_raises")
         /\ browser' = (outcome = "ok")
         /\ pc' = IF outcome = "ok" THEN "check" ELSE "aborted"
         /\ abort_cause' = IF outcome = "ok" THEN abort_cause
                           ELSE IF outcome = "start_raises"
                                THEN "playwright_start" ELSE "browser_launch"
    /\ UNCHANGED <<clock, config, notified, file, prop_i, result, room_i,
                   success, delivered, failed>>
    /\ UNCHANGED aside

\* The rooms of a property as check_availability reports them
RoomsChecked(rooms, avail) ==
    [i \in 1..Len(rooms) |->
        RoomAvailability(Prop, rooms[i], config.check_in_date,
                         check_out_date(config), avail[i])]

\* What the booking site can say of the rooms of a check, in the runs
\* explored: of the rooms a filter names each is available or not, of a
\* full catalog only the first room is ever available
Availabilities(rooms) ==
    {avail \in [1..Len(rooms) -> BOOLEAN] :
        \A i \in 1..Len(rooms) :
            avail[i] => (config.room_filter[Prop] # <<>> \/ i = 1)}

\* Mutant: an exception keeps the rooms parsed before it
CheckAvailability_keeps_rooms ==
    /\ pc = "check"
    /\ LET rooms == rooms_to_check(config, Prop)
       IN  \E avail \in Availabilities(rooms) :
             \/ \E text \in ErrorTexts :
                  result' = CheckResult(Prop, RoomsChecked(rooms, avail), text)
             \/ result' = CheckResult(Prop, RoomsChecked(rooms, avail), None)
    /\ pc' = "exit"
    /\ UNCHANGED <<clock, config, notified, file, prop_i, playwright, browser,
                   room_i, success, abort_cause, delivered, failed>>
    /\ UNCHANGED aside

\* check_availability: without a browser, an error and no rooms; every
\* exception inside becomes a CheckResult with the error text and no
\* rooms; otherwise one RoomAvailability per room
CheckAvailability ==
    /\ pc = "check"
    /\ LET rooms == rooms_to_check(config, Prop)
       IN  IF ~browser
           THEN result' = CheckResult(Prop, <<>>, BrowserNotInitialized)
           ELSE \/ \E text \in ErrorTexts :
                     result' = CheckResult(Prop, <<>>, text)
                \/ \E avail \in Availabilities(rooms) :
                     result' = CheckResult(Prop, RoomsChecked(rooms, avail),
                                           None)
    /\ pc' = "exit"
    /\ UNCHANGED <<clock, config, notified, file, prop_i, playwright, browser,
                   room_i, success, abort_cause, delivered, failed>>
    /\ UNCHANGED aside

\* Mutant: the cycle ends after any property
NextProperty_sleeps_early ==
    /\ prop_i' = prop_i
    /\ pc' = "sleep"

\* The property after this one, or the sleep after the last
NextProperty ==
    IF prop_i < Len(config.properties)
    THEN /\ prop_i' = prop_i + 1
         /\ pc' = "enter"
    ELSE /\ prop_i' = prop_i
         /\ pc' = "sleep"

\* BanScraper.__aexit__, then `if result.error: return`
ExitSession ==
    /\ pc = "exit"
    /\ \E outcome \in {"ok", "close_raises", "stop_raises"} :
         /\ browser' = (outcome = "close_raises")
         /\ playwright' = (outcome # "ok")
         /\ IF outcome = "ok"
            THEN /\ UNCHANGED abort_cause
                 /\ IF Truthy(result.error)
                    THEN NextProperty
                    ELSE pc' = "notify" /\ prop_i' = prop_i
            ELSE /\ pc' = "aborted"
                 /\ prop_i' = prop_i
                 /\ abort_cause' = IF outcome = "close_raises"
                                   THEN "browser_close" ELSE "playwright_stop"
    /\ room_i' = 1
    /\ UNCHANGED <<clock, config, notified, file, result, success, delivered,
                   failed>>
    /\ UNCHANGED aside

\* Mutant: delivers without a channel
NotifyRoom_without_channel ==
    /\ pc = "notify"
    /\ room_i <= Len(Available)
    /\ IF should_notify(notified[Prop], make_key(Available[room_i]), clock)
       THEN pc' = "sending" /\ room_i' = room_i
       ELSE pc' = "notify" /\ room_i' = room_i + 1
    /\ UNCHANGED <<clock, config, notified, file, prop_i, playwright, browser,
                   result, success, abort_cause, delivered, failed>>
    /\ UNCHANGED aside

\* for room in available: `if notifier and state.should_notify(room)`
NotifyRoom ==
    /\ pc = "notify"
    /\ room_i <= Len(Available)
    /\ IF config.ntfy_topic
          /\ should_notify(notified[Prop], make_key(Available[room_i]), clock)
       THEN pc' = "sending" /\ room_i' = room_i
       ELSE pc' = "notify" /\ room_i' = room_i + 1
    /\ UNCHANGED <<clock, config, notified, file, prop_i, playwright, browser,
                   result, success, abort_cause, delivered, failed>>
    /\ UNCHANGED aside

\* success = await notifier.send(room, prop_config)
Send ==
    /\ pc = "sending"
    /\ \E ok \in BOOLEAN, d \in {0, 1} :
         /\ clock + d <= MaxClock
         /\ clock' = clock + d
         /\ success' = ok
         /\ LET key == make_key(Available[room_i])
            IN  /\ delivered' = IF ok
                                THEN [k \in DOMAIN delivered \cup {key} |->
                                        IF k = key THEN clock' ELSE delivered[k]]
                                ELSE delivered
                /\ failed' = IF ok THEN failed \ {key} ELSE failed \cup {key}
    /\ pc' = "sent"
    /\ UNCHANGED <<config, notified, file, prop_i, playwright, browser, result,
                   room_i, abort_cause>>
    /\ UNCHANGED aside

\* Mutant: marks the room whatever send() returned
AfterSend_marks_on_failure ==
    /\ pc = "sent"
    /\ LET saved == mark_notified(notified[Prop],
                                  make_key(Available[room_i]), clock)
       IN  /\ notified' = [notified EXCEPT ![Prop] = saved.notified]
           /\ file' = [file EXCEPT ![Prop] = saved.file]
    /\ room_i' = room_i + 1
    /\ pc' = "notify"
    /\ UNCHANGED <<clock, config, prop_i, playwright, browser, result, success,
                   abort_cause, delivered, failed>>
    /\ UNCHANGED aside

\* Mutant: never marks
AfterSend_never_marks ==
    /\ pc = "sent"
    /\ room_i' = room_i + 1
    /\ pc' = "notify"
    /\ UNCHANGED <<clock, config, notified, file, prop_i, playwright, browser,
                   result, success, abort_cause, delivered, failed>>
    /\ UNCHANGED aside

\* `if success: state.mark_notified(room)`, else only a log line
AfterSend ==
    /\ pc = "sent"
    /\ IF success
       THEN LET saved == mark_notified(notified[Prop],
                                       make_key(Available[room_i]), clock)
            IN  /\ notified' = [notified EXCEPT ![Prop] = saved.notified]
                /\ file' = [file EXCEPT ![Prop] = saved.file]
       ELSE UNCHANGED <<notified, file>>
    /\ room_i' = room_i + 1
    /\ pc' = "notify"
    /\ UNCHANGED <<clock, config, prop_i, playwright, browser, result, success,
                   abort_cause, delivered, failed>>
    /\ UNCHANGED aside

\* The end of _check_single_property, back in run_check_loop's for
EndProperty ==
    /\ pc = "notify"
    /\ room_i > Len(Available)
    /\ NextProperty
    /\ UNCHANGED <<clock, config, notified, file, playwright, browser, result,
                   room_i, success, abort_cause, delivered, failed>>
    /\ UNCHANGED aside

\* How long a sleep can last, in hours
SleepHours == {cooldown_hours - 1, cooldown_hours}

\* await asyncio.sleep(...), then the next cycle
Sleep ==
    /\ pc = "sleep"
    /\ \E d \in SleepHours :
         /\ clock + d <= MaxClock
         /\ clock' = clock + d
    /\ pc' = "enter"
    /\ prop_i' = 1
    /\ UNCHANGED <<config, notified, file, playwright, browser, result, room_i,
                   success, abort_cause, delivered, failed>>
    /\ UNCHANGED aside

\* KeyboardInterrupt during the sleep (check() exits 0), or the process
\* ended by an exception or was interrupted; the command is run again
Restart ==
    /\ pc \in {"sleep", "aborted", "stopped"}
    /\ pc' = "start"
    /\ notified' = FreshStates
    /\ playwright' = FALSE
    /\ browser' = FALSE
    /\ result' = NoResult
    /\ room_i' = 1
    /\ prop_i' = 1
    /\ success' = FALSE
    /\ abort_cause' = "none"
    /\ UNCHANGED <<clock, config, file, delivered, failed>>
    /\ UNCHANGED aside

Next ==
    \/ Start
    \/ EnterSession
    \/ CheckAvailability
    \/ ExitSession
    \/ NotifyRoom
    \/ Send
    \/ AfterSend
    \/ EndProperty
    \/ Sleep
    \/ Restart

Spec == Init /\ [][Next]_vars

\* ------------------------------------------------ interruption anywhere

\* How many interruptions a behaviour holds
MaxInterrupts == 1

\* The process is interrupted (a signal, a kill, a power cut) wherever it
\* is; what is on disk stays
Interrupt ==
    /\ interrupts < MaxInterrupts
    /\ pc \notin {"start", "stopped", "aborted"}
    /\ pc' = "stopped"
    /\ interrupts' = interrupts + 1
    /\ UNCHANGED <<clock, config, notified, file, prop_i, playwright, browser,
                   result, room_i, success, abort_cause, delivered, failed>>
    /\ UNCHANGED <<store, parse, legacy, cli, scrape>>

\* The process is interrupted inside save(): write_text has opened the
\* state file for writing, which empties it, and has not written it all
InterruptSave ==
    /\ interrupts < MaxInterrupts
    /\ pc = "sent"
    /\ success
    /\ file' = [file EXCEPT ![Prop] = TruncatedFile]
    /\ pc' = "stopped"
    /\ interrupts' = interrupts + 1
    /\ UNCHANGED <<clock, config, notified, prop_i, playwright, browser,
                   result, room_i, success, abort_cause, delivered, failed>>
    /\ UNCHANGED <<store, parse, legacy, cli, scrape>>

NextCrash ==
    \/ Next
    \/ Interrupt
    \/ InterruptSave

SpecCrash == Init /\ [][NextCrash]_vars

\* ------------------------------------- the state store, driven directly

\* The poll loop is not running
LoopIdle ==
    /\ pc = "idle"
    /\ config \in {Config(<<MIYAKOWASURE>>, [p \in Properties |-> <<>>],
                          FALSE, 1, 1, 2)}
    /\ notified = FreshStates
    /\ file = [p \in Properties |-> MissingFile]
    /\ prop_i = 1
    /\ playwright = FALSE
    /\ browser = FALSE
    /\ result = NoResult
    /\ room_i = 1
    /\ success = FALSE
    /\ abort_cause = "none"
    /\ delivered = EmptyMap
    /\ failed = {}
    /\ interrupts = 0
    /\ legacy = MissingFile
    /\ cli = NoCli
    /\ scrape = NoScrape

\* The RoomAvailability facts marked and asked about (tests/test_state.py):
\* two rooms of one property and a room of the other for the same dates,
\* and the first room for other dates
StoreRooms ==
    { RoomAvailability(MIYAKOWASURE, "00001", 15, 16, TRUE),
      RoomAvailability(MIYAKOWASURE, "00006", 15, 16, TRUE),
      RoomAvailability(MIYAMASO, "25112", 15, 16, TRUE),
      RoomAvailability(MIYAKOWASURE, "00001", 16, 17, TRUE) }

StoreKeys == {make_key(r) : r \in StoreRooms}

\* A "notified" object of a file found on disk: one entry, a timestamp of
\* hour 0 or text that is no timestamp
FoundEntries ==
    { [k \in {key} |-> v] :
        key \in {make_key(RoomAvailability(MIYAKOWASURE, "00001", 15, 16, TRUE))},
        v \in {isoformat(0), NotATimestamp} }

\* The state files found on disk when the store is created
FoundFiles ==
    {FileOf(kind, EmptyMap) :
        kind \in {"missing", "invalid_json", "not_object", "no_notified",
                  "notified_not_map", "map"}}
    \cup {FileOf("map", e) : e \in FoundEntries}

\* How far the clock moves between two calls, in hours
TickHours == {cooldown_hours - 1, cooldown_hours, cooldown_hours + 1}

\* state = NotificationState(state_file=...): a fresh store, next to a file
InitStore ==
    /\ LoopIdle
    /\ clock = 0
    /\ parse = NoParse
    /\ \E f \in FoundFiles : store = [NoStore EXCEPT !.file = f, !.op = "new"]

\* state.mark_notified(room)
StoreMark ==
    /\ \E r \in StoreRooms :
         LET saved == mark_notified(store.notified, make_key(r), clock)
         IN  store' = [store EXCEPT
                         !.notified = saved.notified,
                         !.file = saved.file,
                         !.marks = [k \in DOMAIN store.marks \cup {make_key(r)} |->
                                      IF k = make_key(r) THEN clock
                                      ELSE store.marks[k]],
                         !.op = "mark"]
    /\ UNCHANGED <<clock, parse, loop_vars>>

\* state.save()
StoreSave ==
    /\ LET saved == save(store.notified, clock)
       IN  store' = [store EXCEPT !.notified = saved.notified,
                                  !.file = saved.file, !.op = "save"]
    /\ UNCHANGED <<clock, parse, loop_vars>>

\* state2 = NotificationState(state_file=...); state2.load()
StoreLoad ==
    /\ store' = [store EXCEPT !.fresh = load(store.file, EmptyMap, clock),
                              !.op = "load"]
    /\ UNCHANGED <<clock, parse, loop_vars>>

\* Time passes
StoreTick ==
    /\ \E d \in TickHours :
         /\ clock + d <= MaxClock
         /\ clock' = clock + d
    /\ store' = [store EXCEPT !.op = "tick"]
    /\ UNCHANGED <<parse, loop_vars>>

NextStore ==
    \/ StoreMark
    \/ StoreSave
    \/ StoreLoad
    \/ StoreTick

SpecStore == InitStore /\ [][NextStore]_vars

\* -------------------------------------- the migration, driven directly

\* The facts the legacy checker marked: two rooms of Miyakowasure
LegacyRooms ==
    { RoomAvailability(MIYAKOWASURE, "00001", 15, 16, TRUE),
      RoomAvailability(MIYAKOWASURE, "00006", 15, 16, TRUE) }

\* The "notified" objects of a legacy file: any of the two keys, each with
\* a timestamp of hour 0 or with text that is no timestamp
LegacyEntries ==
    UNION { [ks -> {isoformat(0), NotATimestamp}] :
               ks \in SUBSET {legacy_key(r) : r \in LegacyRooms} }

\* The legacy files found in the home directory
LegacyFiles ==
    {FileOf(kind, EmptyMap) :
        kind \in {"missing", "invalid_json", "json_list", "json_number",
                  "no_notified", "notified_not_map"}}
    \cup {FileOf("map", e) : e \in LegacyEntries}

\* The new-format files found in the state directory
NewFiles ==
    {FileOf(kind, EmptyMap) : kind \in {"missing", "invalid_json", "map"}}
    \cup {json_dumps([k \in {make_key(r)} |-> isoformat(0)]) : r \in LegacyRooms}

\* The poll loop is not running; a legacy file and a new-format file are
\* on disk, or are not
InitMigrate ==
    /\ pc = "idle"
    /\ clock = 0
    /\ config \in {Config(<<MIYAKOWASURE>>, [p \in Properties |-> <<>>],
                          FALSE, 1, 1, 2)}
    /\ notified = FreshStates
    /\ legacy \in LegacyFiles
    /\ \E f \in NewFiles :
          file = [p \in Properties |-> IF p = MIYAKOWASURE THEN f
                                       ELSE MissingFile]
    /\ prop_i = 1
    /\ playwright = FALSE
    /\ browser = FALSE
    /\ result = NoResult
    /\ room_i = 1
    /\ success = FALSE
    /\ abort_cause = "none"
    /\ delivered = EmptyMap
    /\ failed = {}
    /\ interrupts = 0
    /\ store = NoStore
    /\ parse = NoParse
    /\ cli = NoCli
    /\ scrape = NoScrape

\* migrate_old_state_file(state_dir)
Migrate ==
    /\ pc \in {"idle", "migrated"}
    /\ LET migration == migrate_old_state_file(legacy, file[MIYAKOWASURE])
       IN  /\ file' = [file EXCEPT ![MIYAKOWASURE] = migration.file]
           /\ abort_cause' = IF migration.raised THEN "migrate" ELSE "none"
    /\ pc' = "migrated"
    /\ UNCHANGED <<clock, config, notified, prop_i, playwright, browser,
                   result, room_i, success, delivered, failed>>
    /\ UNCHANGED aside

\* The legacy checker (miyakowasure_check), still installed, marks a room:
\* its mark_notified writes the legacy file
LegacyMark ==
    /\ pc \in {"idle", "migrated"}
    /\ legacy.kind \in {"missing", "invalid_json", "no_notified", "map"}
    /\ \A k \in DOMAIN legacy.entries : IsIso(legacy.entries[k])
    /\ \E r \in LegacyRooms :
          legacy' = json_dumps(
              cleanup_expired(set_entry(legacy.entries, legacy_key(r), clock),
                              clock))
    /\ pc' = "idle"
    /\ UNCHANGED <<clock, config, notified, file, prop_i, playwright, browser,
                   result, room_i, success, abort_cause, delivered, failed>>
    /\ UNCHANGED <<store, parse, interrupts, cli, scrape>>

NextMigrate ==
    \/ Migrate
    \/ LegacyMark

SpecMigrate == InitMigrate /\ [][NextMigrate]_vars

\* ------------------------------------------- the room catalog, called

\* Neither the poll loop nor the state store nor a parser is running
AllIdle ==
    /\ pc = "idle"
    /\ clock = 0
    /\ config \in {Config(<<MIYAKOWASURE>>, [p \in Properties |-> <<>>],
                          FALSE, 1, 1, 2)}
    /\ notified = FreshStates
    /\ file = [p \in Properties |-> MissingFile]
    /\ prop_i = 1
    /\ playwright = FALSE
    /\ browser = FALSE
    /\ result = NoResult
    /\ room_i = 1
    /\ success = FALSE
    /\ abort_cause = "none"
    /\ delivered = EmptyMap
    /\ failed = {}
    /\ interrupts = 0
    /\ legacy = MissingFile
    /\ store = NoStore
    /\ parse = NoParse

\* The texts a room can be asked by: every alias of both catalogs, and
\* texts that are no alias
AliasBases ==
    DOMAIN MiyamasoMapping \cup DOMAIN MiyakowasureMapping
        \cup {"", "invalid", "rian sansui", "takamiya"}

\* The texts as they are typed: in lower case or with capitals, with or
\* without surrounding blanks
AliasTexts == {Text(b, u, p) : b \in AliasBases, u \in BOOLEAN, p \in BOOLEAN}

\* A text is about to be parsed
InitRooms ==
    /\ AllIdle
    /\ scrape = NoScrape
    /\ \E s \in AliasTexts :
          cli = [stage |-> "text", text |-> s, rooms |-> <<>>,
                 found |-> [p \in Properties |-> None]]

\* MiyamasoRoom.parse_multiple(s)
ParseMultiple ==
    /\ cli.stage = "text"
    /\ cli' = [cli EXCEPT !.stage = "parse_multiple",
                          !.rooms = parse_multiple(cli.text)]
    /\ UNCHANGED <<pc, clock, config, notified, file, prop_i, playwright,
                   browser, result, room_i, success, abort_cause, delivered,
                   failed, store, parse, interrupts, legacy, scrape>>

\* MiyamasoRoom.from_string(s), its room as a list
FromString ==
    /\ cli.stage = "text"
    /\ cli' = [cli EXCEPT !.stage = "from_string",
                          !.rooms = IF MiyamasoRoom_from_string(cli.text) = None
                                    THEN <<>>
                                    ELSE <<MiyamasoRoom_from_string(cli.text)>>]
    /\ UNCHANGED <<pc, clock, config, notified, file, prop_i, playwright,
                   browser, result, room_i, success, abort_cause, delivered,
                   failed, store, parse, interrupts, legacy, scrape>>

\* get_property_config(prop).parse_room(s), for each property
ParseRoom ==
    /\ cli.stage = "text"
    /\ cli' = [cli EXCEPT !.stage = "parse_room",
                          !.found = [p \in Properties |-> parse_room(p, cli.text)]]
    /\ UNCHANGED <<pc, clock, config, notified, file, prop_i, playwright,
                   browser, result, room_i, success, abort_cause, delivered,
                   failed, store, parse, interrupts, legacy, scrape>>

NextRooms ==
    \/ ParseMultiple
    \/ FromString
    \/ ParseRoom

SpecRooms == InitRooms /\ [][NextRooms]_vars

\* --------------------------------------------------- the check command

\* The --property options tried, as their comma-separated pieces
PropertyArgs ==
    { <<Lit("all")>>, <<Text("all", TRUE, FALSE)>>, <<Text("all", FALSE, TRUE)>>,
      <<Lit("miyakowasure")>>, <<Lit("takamiya")>>, <<Lit("hakone")>>,
      <<Lit("miyakowasure"), Text("miyamaso", TRUE, TRUE)>>,
      <<Lit("miyamaso"), Lit("takamiya")>>,
      <<Lit("miyamaso"), Lit("hakone")>> }

\* The --room options tried, as their comma-separated pieces; <<>> when
\* the option is not given
RoomArgs ==
    { <<>>, <<Lit("sakura")>>, <<Lit("hinakura")>>, <<Text("rian", TRUE, TRUE)>>,
      <<Lit("rian_sansui")>>, <<Lit("penthouse")>>,
      <<Lit("sakura"), Lit("hinakura")>>, <<Lit("sakura"), Lit("penthouse")>>,
      <<Lit("vip"), Lit("sakura")>>, <<Lit("rian-jp"), Lit("rian")>> }

\* The options of a run of the check command
CheckArgs ==
    [date_ok : BOOLEAN, property : PropertyArgs,
     nights : {0, 1}, guests : {0, 2, 3, 5}, interval : {14, 15, 30},
     room : RoomArgs, once : BOOLEAN]

\* The check command is about to run
InitCli ==
    /\ AllIdle
    /\ scrape = NoScrape
    /\ \E a \in CheckArgs :
          cli = [stage |-> "args", args |-> a, reached |-> "none",
                 properties |-> <<>>,
                 room_filter |-> [p \in Properties |-> <<>>],
                 results |-> <<>>, i |-> 1, exit_code |-> -1, scrapers |-> 0,
                 state_access |-> FALSE, failures |-> 0,
                 warnings |-> [p \in Properties |-> <<>>], logged |-> <<>>]

\* raise typer.Exit(code), or the end of the process by an exception
Exit(c, code) == [c EXCEPT !.stage = "exit", !.exit_code = code]

\* check() up to the run: the date, the properties, the room filter and
\* the Config; `reached` is the last of these steps that began
CliCheck ==
    /\ cli.stage = "args"
    /\ LET a == cli.args
           parsed == parse_properties(a.property)
           filter == parse_room_filter(a.room, parsed.properties)
       IN  cli' =
             IF ~a.date_ok
             THEN Exit([cli EXCEPT !.reached = "date"], 1)
             ELSE IF parsed.exit
             THEN Exit([cli EXCEPT !.reached = "property"], 1)
             ELSE IF filter.exit
             THEN Exit([cli EXCEPT !.reached = "room",
                                   !.properties = parsed.properties], 1)
             ELSE IF post_init(a.nights, a.guests, a.interval) # "ok"
             THEN Exit([cli EXCEPT !.reached = "config",
                                   !.properties = parsed.properties,
                                   !.room_filter = filter.room_filter], 1)
             ELSE [cli EXCEPT !.reached = "run",
                              !.properties = parsed.properties,
                              !.room_filter = filter.room_filter,
                              !.stage = IF a.once THEN "single" ELSE "loop"]
    /\ UNCHANGED <<pc, clock, config, notified, file, prop_i, playwright,
                   browser, result, room_i, success, abort_cause, delivered,
                   failed, store, parse, interrupts, legacy, scrape>>

\* _single_check_all, one property: the session is entered, the check
\* returns a CheckResult, the session is left; an exception of
\* __aenter__ or __aexit__ ends the process with a traceback (status 1)
CliSingleProperty ==
    /\ cli.stage = "single"
    /\ cli.i <= Len(cli.properties)
    /\ \/ \E raises \in {"__aenter__", "__aexit__"} :
            cli' = Exit([cli EXCEPT !.scrapers = @ + 1, !.failures = @ + 1], 1)
       \/ \E error \in ErrorTexts \cup {BrowserNotInitialized, None} :
            cli' = [cli EXCEPT !.scrapers = @ + 1,
                               !.results = Append(@, error),
                               !.failures = IF error = None THEN @ ELSE @ + 1,
                               !.i = @ + 1]
    /\ UNCHANGED <<pc, clock, config, notified, file, prop_i, playwright,
                   browser, result, room_i, success, abort_cause, delivered,
                   failed, store, parse, interrupts, legacy, scrape>>

\* has_error = any(r.error for r in results); Exit(1 if has_error else 0)
CliSingleDone ==
    /\ cli.stage = "single"
    /\ cli.i > Len(cli.properties)
    /\ LET has_error == \E j \in 1..Len(cli.results) : Truthy(cli.results[j])
       IN  cli' = Exit(cli, IF has_error THEN 1 ELSE 0)
    /\ UNCHANGED <<pc, clock, config, notified, file, prop_i, playwright,
                   browser, result, room_i, success, abort_cause, delivered,
                   failed, store, parse, interrupts, legacy, scrape>>

\* The Config check() builds from the options (--ntfy-topic not given)
CliConfig ==
    Config(cli.properties, cli.room_filter, FALSE, 1, cli.args.nights,
           cli.args.guests)

\* asyncio.run(run_check_loop(config)): the state files are migrated and
\* loaded, the guest warnings are logged, the scrapers run
CliLoop ==
    /\ cli.stage = "loop"
    /\ cli' = [cli EXCEPT !.stage = "looping", !.state_access = TRUE,
                          !.scrapers = Len(cli.properties),
                          !.warnings =
                             [p \in Properties |->
                                 IF p \in Range(cli.properties)
                                 THEN validate_guests_for_property(CliConfig, p)
                                 ELSE <<>>],
                          !.logged = validate_guests_for_rooms(CliConfig)]
    /\ UNCHANGED <<pc, clock, config, notified, file, prop_i, playwright,
                   browser, result, room_i, success, abort_cause, delivered,
                   failed, store, parse, interrupts, legacy, scrape>>

\* except KeyboardInterrupt: raise typer.Exit(0)
CliKeyboardInterrupt ==
    /\ cli.stage = "looping"
    /\ cli' = Exit(cli, 0)
    /\ UNCHANGED <<pc, clock, config, notified, file, prop_i, playwright,
                   browser, result, room_i, success, abort_cause, delivered,
                   failed, store, parse, interrupts, legacy, scrape>>

NextCli ==
    \/ CliCheck
    \/ CliSingleProperty
    \/ CliSingleDone
    \/ CliLoop
    \/ CliKeyboardInterrupt

SpecCli == InitCli /\ [][NextCli]_vars

\* ------------------------------------------------------- page content

\* The longest page content explored, in tokens
MaxLen == 3

\* The sanity band of the Yadosys parser
YadosysMinPrice == 10000
YadosysMaxPrice == 100000

\* The sanity band of the 489ban parser
BanMinPrice == 15000
BanMaxPrice == 150000

\* Page content is a sequence of tokens, pieces of text that no pattern
\* matches across:
\*   name           the room's display name as display_name gives it
\*   name_noparens  the display name without its parentheses
\*                  ("SAKURA-KAN river view"); for a display name that has
\*                  none this is the display name itself
\*   room_id        the room's id
\*   text           the word in `word`
\*   button         <a href="...">Reserve, a marker inside a control
\*   yen            a yen sign and the digits of `value`
\*   yen_bad        a yen sign and a comma
\*   jpy            the digits of `value`, then JPY
\*   en             the digits of `value`, then the yen character
\*   spots          "3 rooms left"
Tok(kind, word, value) == [kind |-> kind, word |-> word, value |-> value]

Tokens ==
    {Tok(k, "", 0) : k \in {"name", "name_noparens", "room_id", "button", "yen_bad"}}
    \cup {Tok("text", w, 0) : w \in {"sold out", "unavailable", "available", "reserve"}}
    \cup {Tok("yen", "", v) : v \in {500, YadosysMinPrice, 20000, YadosysMaxPrice, 200000}}
    \cup {Tok("jpy", "", v) : v \in {BanMinPrice, BanMaxPrice}}
    \cup {Tok("en", "", 20000), Tok("spots", "", 3)}

Contents == UNION {[1..n -> Tokens] : n \in 0..MaxLen}

\* The first index of a nonempty set of indices
First(indices) == CHOOSE i \in indices : \A j \in indices : i <= j

\* int | None: <<>> is None
NoInt == <<>>

\* ---------------------------------------------- YadosysScraper (parser)

\* The rooms whose display name has parentheses: TSUBAKI-KAN (Room with a
\* view), MOMIJI-KAN (river view), SAKURA-KAN (river view), TSUBAKI-KAN
\* (private toilet)
NameHasParens(room) == room \in {"00008", "00005", "00001", "00002"}

\* room_name_lower in content_lower, for one token
IsName(tok, room) ==
    \/ tok.kind = "name"
    \/ tok.kind = "name_noparens" /\ ~NameHasParens(room)

\* Where the pattern {room_name} matches: the display name is put into the
\* pattern unescaped, so its parentheses are a group and match no text
MatchesNamePattern(tok, room) ==
    \/ tok.kind = "name_noparens"
    \/ tok.kind = "name" /\ ~NameHasParens(room)

\* unavailable_markers, matched by pattern with re.IGNORECASE
YadosysUnavailable(tok) == tok.kind = "text" /\ tok.word \in {"sold out", "unavailable"}

\* available_markers, `marker in content`: "available" is in "unavailable"
YadosysAvailable(tok) == tok.kind = "text" /\ tok.word \in {"available", "unavailable"}

\* [yen sign]([0-9,]+)
IsYenMatch(tok) == tok.kind \in {"yen", "yen_bad"}

\* `room_name_lower in content_lower or room_id in content`
RoomPresent(content, room) ==
    \E i \in 1..Len(content) : IsName(content[i], room) \/ content[i].kind = "room_id"

\* Some "{room_name}.*?{marker}|{marker}.*?{room_name}" is found
UnavailableFound(content, room) ==
    \E i, j \in 1..Len(content) :
        /\ i # j
        /\ MatchesNamePattern(content[i], room)
        /\ YadosysUnavailable(content[j])

\* Some available marker is in the content
AvailableFound(content) == \E i \in 1..Len(content) : YadosysAvailable(content[i])

\* re.search of the three price patterns, in order: for each the token
\* whose digits are group 1, <<>> when the pattern is not found
YadosysPriceMatches(content, room) ==
    LET idx == 1..Len(content)
        after_name == {j \in idx : IsYenMatch(content[j]) /\
                          \E i \in idx : i < j /\ MatchesNamePattern(content[i], room)}
        before_name == {i \in idx : IsYenMatch(content[i]) /\
                          \E j \in idx : i < j /\ MatchesNamePattern(content[j], room)}
        any == {i \in idx : IsYenMatch(content[i])}
        pick(found) == IF found = {} THEN <<>> ELSE <<content[First(found)]>>
    IN  <<pick(after_name), pick(before_name), pick(any)>>

\* The loop over price_patterns: price is assigned from every match that
\* int() accepts, and the loop stops at the first one inside the band
RECURSIVE YadosysPriceLoop(_, _)
YadosysPriceLoop(matches, price) ==
    IF matches = <<>>
    THEN price
    ELSE LET m == Head(matches)
         IN  IF m = <<>> \/ m[1].kind = "yen_bad"
             THEN YadosysPriceLoop(Tail(matches), price)
             ELSE IF YadosysMinPrice <= m[1].value /\ m[1].value <= YadosysMaxPrice
                  THEN <<m[1].value>>
                  ELSE YadosysPriceLoop(Tail(matches), <<m[1].value>>)

\* (\d+)\s*(?:rooms?|left|remaining|...)
SpotsLeft(content) ==
    LET found == {i \in 1..Len(content) : content[i].kind = "spots"}
    IN  IF found = {} THEN NoInt ELSE <<content[First(found)].value>>

\* Mutant: the markers and prices are read whether or not the room is named
check_room_availability_any_page(content, room) ==
    LET marked == IF UnavailableFound(content, room) THEN FALSE
                  ELSE AvailableFound(content)
        price == YadosysPriceLoop(YadosysPriceMatches(content, room), NoInt)
    IN  [available |-> IF ~marked /\ price # NoInt /\ price[1] > 10000
                       THEN TRUE ELSE marked,
         price |-> price,
         spots_left |-> SpotsLeft(content)]

\* YadosysScraper._check_room_availability on the page content
check_room_availability(content, room) ==
    IF ~RoomPresent(content, room)
    THEN [available |-> FALSE, price |-> NoInt, spots_left |-> NoInt]
    ELSE LET marked == IF UnavailableFound(content, room) THEN FALSE
                       ELSE AvailableFound(content)
             price == YadosysPriceLoop(YadosysPriceMatches(content, room), NoInt)
         IN  [available |-> IF ~marked /\ price # NoInt /\ price[1] > 10000
                            THEN TRUE ELSE marked,
              price |-> price,
              spots_left |-> SpotsLeft(content)]

\* -------------------------------------------------- BanScraper (parser)

\* unavailable_markers, `marker in content_lower`
BanUnavailable(tok) == tok.kind = "text" /\ tok.word = "sold out"

\* re.search of the three price patterns, in order
BanPriceMatches(content) ==
    LET idx == 1..Len(content)
        pick(found) == IF found = {} THEN <<>> ELSE <<content[First(found)]>>
    IN  << pick({i \in idx : content[i].kind = "jpy"}),
           pick({i \in idx : IsYenMatch(content[i])}),
           pick({i \in idx : content[i].kind = "en"}) >>

\* The loop over price_patterns: the first match inside the band is the
\* price; a match outside the band, or that int() rejects, is passed over
RECURSIVE BanPriceLoop(_)
BanPriceLoop(matches) ==
    IF matches = <<>>
    THEN NoInt
    ELSE LET m == Head(matches)
         IN  IF m # <<>> /\ m[1].kind # "yen_bad"
                /\ BanMinPrice <= m[1].value /\ m[1].value <= BanMaxPrice
             THEN <<m[1].value>>
             ELSE BanPriceLoop(Tail(matches))

\* A marker of available_markers inside a button or link
BanButton(content) == \E i \in 1..Len(content) : content[i].kind = "button"

\* BanScraper._parse_room_page
parse_room_page(content) ==
    IF \E i \in 1..Len(content) : BanUnavailable(content[i])
    THEN [available |-> FALSE, price |-> NoInt, spots_left |-> NoInt]
    ELSE LET price == BanPriceLoop(BanPriceMatches(content))
         IN  [available |-> price # NoInt \/ BanButton(content),
              price |-> price, spots_left |-> NoInt]

\* ------------------------------------------------ a parser call, alone

\* A page is in hand for a room: a Miyakowasure room whose display name has
\* no parentheses (MOMIJI-KAN VIP ROOM) or one whose name has them
\* (SAKURA-KAN (river view)) for the Yadosys parser, HINAKURA for 489ban
InitParse ==
    /\ LoopIdle
    /\ clock = 0
    /\ store = NoStore
    /\ \E c \in Contents, call \in {<<"yadosys", "00006">>, <<"yadosys", "00001">>,
                                   <<"489ban", "25112">>} :
         parse = [NoParse EXCEPT !.engine = call[1], !.room = call[2],
                                 !.content = c]

\* YadosysScraper._check_room_availability returns
ParseYadosys ==
    /\ parse.engine = "yadosys"
    /\ ~parse.done
    /\ LET r == check_room_availability(parse.content, parse.room)
       IN  parse' = [parse EXCEPT !.done = TRUE, !.available = r.available,
                                  !.price = r.price, !.spots_left = r.spots_left]
    /\ UNCHANGED <<clock, store, loop_vars>>

\* BanScraper._parse_room_page returns
ParseBan ==
    /\ parse.engine = "489ban"
    /\ ~parse.done
    /\ LET r == parse_room_page(parse.content)
       IN  parse' = [parse EXCEPT !.done = TRUE, !.available = r.available,
                                  !.price = r.price, !.spots_left = r.spots_left]
    /\ UNCHANGED <<clock, store, loop_vars>>

NextParse ==
    \/ ParseYadosys
    \/ ParseBan

SpecParse == InitParse /\ [][NextParse]_vars

\* ------------------------ BanScraper.check_availability, driven directly

\* RoomAvailability with its price_per_person (<<>> is None)
PricedRoomAvailability(prop, room, check_in, check_out, available, price) ==
    [property |-> prop, room |-> room, check_in |-> check_in,
     check_out |-> check_out, available |-> available,
     price_per_person |-> price]

\* What happens to the page of one room:
\*   new_page  whether browser.new_page() returns
\*   loaded    "ok", or what raises inside the try: page.goto ("goto"),
\*             page.content ("content") or _parse_room_page ("parse")
\*   content   the content of the page, when it loads
\*   close     whether page.close() returns
PageOutcome(new_page, loaded, content, close) ==
    [new_page |-> new_page, loaded |-> loaded, content |-> content,
     close |-> close]

\* Mutant: a failure of the load leaves the function as an exception
ban_check_room_availability_raises(cfg, room, outcome) ==
    IF ~outcome.new_page
    THEN [raised |-> TRUE, availability |-> None, page_open |-> FALSE]
    ELSE IF outcome.loaded # "ok" \/ ~outcome.close
    THEN [raised |-> TRUE, availability |-> None, page_open |-> ~outcome.close]
    ELSE LET parsed == parse_room_page(outcome.content)
         IN  [raised |-> FALSE,
              availability |->
                 PricedRoomAvailability(MIYAMASO, room, cfg.check_in_date,
                                        check_out_date(cfg), parsed.available,
                                        parsed.price),
              page_open |-> FALSE]

\* BanScraper._check_room_availability: whether it raised, the
\* RoomAvailability it returned, and whether the page is left open.
\* new_page is called outside the try; page.close() in the finally, whose
\* exception replaces the return
ban_check_room_availability(cfg, room, outcome) ==
    IF ~outcome.new_page
    THEN [raised |-> TRUE, availability |-> None, page_open |-> FALSE]
    ELSE LET parsed == parse_room_page(outcome.content)
             availability ==
                 IF outcome.loaded = "ok"
                 THEN PricedRoomAvailability(MIYAMASO, room, cfg.check_in_date,
                                             check_out_date(cfg),
                                             parsed.available, parsed.price)
                 ELSE PricedRoomAvailability(MIYAMASO, room, cfg.check_in_date,
                                             check_out_date(cfg), FALSE, NoInt)
         IN  IF outcome.close
             THEN [raised |-> FALSE, availability |-> availability,
                   page_open |-> FALSE]
             ELSE [raised |-> TRUE, availability |-> None, page_open |-> TRUE]

\* BanScraper.check_availability, the loop over rooms_to_check: an
\* exception of a room's check ends the loop
RECURSIVE ban_rooms_loop(_, _, _, _)
ban_rooms_loop(cfg, rooms, outcomes, results) ==
    IF rooms = <<>>
    THEN [raised |-> FALSE, results |-> results, pages_open |-> 0]
    ELSE IF Head(rooms) \notin Range(MiyamasoRoom)
    THEN ban_rooms_loop(cfg, Tail(rooms), Tail(outcomes), results)
    ELSE LET r == ban_check_room_availability(cfg, Head(rooms), Head(outcomes))
         IN  IF r.raised
             THEN [raised |-> TRUE, results |-> results,
                   pages_open |-> IF r.page_open THEN 1 ELSE 0]
             ELSE ban_rooms_loop(cfg, Tail(rooms), Tail(outcomes),
                                 Append(results, r.availability))

\* BanScraper.check_availability: the CheckResult it returns and the pages
\* it leaves open; text is str(e) of the exception caught
ban_check_availability(cfg, browser_open, outcomes, text) ==
    IF ~browser_open
    THEN [result |-> CheckResult(MIYAMASO, <<>>, BrowserNotInitialized),
          pages_open |-> 0]
    ELSE LET looped == ban_rooms_loop(cfg, rooms_to_check(cfg, MIYAMASO),
                                      outcomes, <<>>)
         IN  IF looped.raised
             THEN [result |-> CheckResult(MIYAMASO, <<>>, text),
                   pages_open |-> looped.pages_open]
             ELSE [result |-> CheckResult(MIYAMASO, looped.results, None),
                   pages_open |-> 0]

\* The Miyamaso configurations check() builds: no --room, --room hinakura,
\* --room rian
BanConfigs ==
    {Config(<<MIYAMASO>>, parse_room_filter(room, <<MIYAMASO>>).room_filter,
            FALSE, 1, 1, 2) :
        room \in {<<>>, <<Lit("hinakura")>>, <<Lit("rian")>>}}

\* The pages a room can show: a price inside the band, a sold-out notice
BanPages == {<<Tok("jpy", "", BanMinPrice)>>, <<Tok("text", "sold out", 0)>>}

\* What can happen to a room's page
PageOutcomes ==
    {PageOutcome(n, l, c, x) :
        n \in BOOLEAN, l \in {"ok", "goto", "content", "parse"},
        c \in BanPages, x \in BOOLEAN}

\* A BanScraper is about to check a configuration; what will happen to
\* each room's page is fixed
InitBan ==
    /\ AllIdle
    /\ cli = NoCli
    /\ \E cfg \in BanConfigs, b \in BOOLEAN :
         \E outcomes \in [1..Len(rooms_to_check(cfg, MIYAMASO)) -> PageOutcomes] :
            scrape = [stage |-> "call", config |-> cfg, browser |-> b,
                      outcomes |-> outcomes, result |-> NoResult,
                      pages_open |-> 0]

\* result = await scraper.check_availability()
BanCheck ==
    /\ scrape.stage = "call"
    /\ \E text \in ErrorTexts :
         LET r == ban_check_availability(scrape.config, scrape.browser,
                                         scrape.outcomes, text)
         IN  scrape' = [scrape EXCEPT !.stage = "returned",
                                      !.result = r.result,
                                      !.pages_open = r.pages_open]
    /\ UNCHANGED <<pc, clock, config, notified, file, prop_i, playwright,
                   browser, result, room_i, success, abort_cause, delivered,
                   failed, store, parse, interrupts, legacy, cli>>

NextBan == BanCheck

SpecBan == InitBan /\ [][NextBan]_vars

\* ------------------------------------------------------------- the claims

\* The key of the room whose notification is being sent or handled
SendingKey == make_key(Available[room_i])

\* C1: two deliveries that returned success for the same key are at least
\* cooldown_hours apart: when send() returns True for a key delivered
\* before, the attempt began no sooner than cooldown_hours after the
\* earlier delivery had returned.
C1_AtMostOncePerWindow ==
    [][(pc = "sending" /\ pc' = "sent" /\ success'
            /\ SendingKey \in DOMAIN delivered)
        => clock - delivered[SendingKey] >= cooldown_hours]_vars

\* C1 witness: a second delivery for a key has just returned success
C1_Witness ==
    /\ pc = "sent"
    /\ success
    /\ SendingKey \in DOMAIN notified[Prop]
    /\ delivered[SendingKey] - fromisoformat(notified[Prop][SendingKey])
          >= cooldown_hours

\* C3: when send() returned False, handling the result leaves the
\* in-memory map and the state files exactly as they were.
C3_FailureLeavesState ==
    [][(pc = "sent" /\ ~success) => (notified' = notified /\ file' = file)]_vars

\* C3 witness: a failed delivery has been handled while another key of the
\* same property is marked
C3_Witness ==
    /\ pc = "notify"
    /\ room_i > 1
    /\ ~success
    /\ make_key(Available[room_i - 1]) \in failed
    /\ notified[Prop] # EmptyMap

C5_Orig ==
    pc \in {"enter", "check", "exit", "notify", "sleep"} =>
        \A k \in DOMAIN delivered :
            clock - delivered[k] < cooldown_hours => k \in DOMAIN notified[k[1]]

\* The calls of a property's check that are made outside check_availability
SessionCalls ==
    {"playwright_start", "browser_launch", "browser_close", "playwright_stop"}

\* C6 as stated: no failure of a property's check ends the poll loop.
C6_Orig == ~(pc = "aborted" /\ abort_cause \in SessionCalls)

\* C2: a key the store never marked gets should_notify true; at the
\* instant of mark_notified it gets false; once more than cooldown_hours
\* have passed since the mark it gets true again.
C2_Dedup ==
    \A k \in StoreKeys :
        /\ k \notin DOMAIN store.marks
              => should_notify(store.notified, k, clock)
        /\ (k \in DOMAIN store.marks /\ store.marks[k] = clock)
              => ~should_notify(store.notified, k, clock)
        /\ (k \in DOMAIN store.marks /\ clock - store.marks[k] > cooldown_hours)
              => should_notify(store.notified, k, clock)

\* C2 witness: a mark older than cooldown_hours is still in the map, and
\* another key was never marked
C2_Witness ==
    \E k \in StoreKeys :
        /\ k \in DOMAIN store.notified
        /\ k \in DOMAIN store.marks
        /\ clock - store.marks[k] > cooldown_hours
        /\ StoreKeys \ DOMAIN store.marks # {}

\* A file load() is meant to tolerate: missing, or malformed in any way
Malformed(f) ==
    \/ f.kind \in {"missing", "invalid_json", "not_object", "notified_not_map"}
    \/ f.kind = "map" /\ \E k \in DOMAIN f.entries : ~IsIso(f.entries[k])

\* C10 as stated: load() never raises, and for a missing or malformed file
\* it leaves the notified map empty.
C10_Orig ==
    store.op = "load" =>
        /\ ~store.fresh.raised
        /\ Malformed(store.file) =>
              (store.fresh.shape = "map" /\ store.fresh.notified = EmptyMap)

\* Whether a price is inside the sanity band of the parser
InBand(engine, price) ==
    IF engine = "yadosys"
    THEN YadosysMinPrice <= price /\ price <= YadosysMaxPrice
    ELSE BanMinPrice <= price /\ price <= BanMaxPrice

\* The content names the room and holds an unavailability marker
HasUnavailableMarker ==
    IF parse.engine = "yadosys"
    THEN /\ \E i \in 1..Len(parse.content) : IsName(parse.content[i], parse.room)
         /\ \E i \in 1..Len(parse.content) : YadosysUnavailable(parse.content[i])
    ELSE \E i \in 1..Len(parse.content) : BanUnavailable(parse.content[i])

\* The content holds a price inside the band
HasBandPrice ==
    \E i \in 1..Len(parse.content) :
        /\ parse.content[i].kind \in
              (IF parse.engine = "yadosys" THEN {"yen"} ELSE {"yen", "jpy", "en"})
        /\ InBand(parse.engine, parse.content[i].value)

\* C7 as stated: content with an unavailability marker for the room and a
\* price inside the band is reported unavailable, by both parsers.
C7_Orig ==
    (parse.done /\ HasUnavailableMarker /\ HasBandPrice) => ~parse.available

\* C8 as stated: the price a parser reports is absent or inside the band.
C8_Orig ==
    parse.done => (parse.price = NoInt \/ InBand(parse.engine, parse.price[1]))

\* C9 as stated: in the Yadosys parser, with the room present, no
\* unavailability marker matched and no positive marker found, the room is
\* available exactly when a price inside the band was extracted.
C9_Orig ==
    (/\ parse.done
     /\ parse.engine = "yadosys"
     /\ RoomPresent(parse.content, parse.room)
     /\ ~UnavailableFound(parse.content, parse.room)
     /\ ~AvailableFound(parse.content))
    => (parse.available <=>
            (parse.price # NoInt /\ InBand("yadosys", parse.price[1])))

\* The entries of a map whose age is at most cooldown_hours
NotOlderThanCooldown(m, now) ==
    [k \in {x \in DOMAIN m :
               now - fromisoformat(m[x]) <= cooldown_hours} |-> m[k]]

\* A state file holding a map of timestamps
WellFormed(f) ==
    f.kind = "map" /\ \A k \in DOMAIN f.entries : IsIso(f.entries[k])

\* C11 as stated: a save() leaves in the map exactly the entries whose age
\* is at most cooldown_hours, and a load() of a well-formed file returns
\* exactly the file's entries whose age is at most cooldown_hours.
C11_Orig ==
    [][/\ store'.op = "save"
            => store'.notified = NotOlderThanCooldown(store.notified, clock)
       /\ (store'.op = "load" /\ WellFormed(store.file))
            => store'.fresh.notified
                  = NotOlderThanCooldown(store.file.entries, clock)]_vars

\* Every entry of a map is at most cooldown_hours old
AllWithinCooldown(m, now) ==
    \A k \in DOMAIN m : now - fromisoformat(m[k]) <= cooldown_hours

\* C12 as stated: at every moment of the poll loop, every key of every
\* notified map, in memory and in the state file, is at most cooldown_hours
\* old.
C12_Orig ==
    \A p \in Properties :
        /\ AllWithinCooldown(notified[p], clock)
        /\ file[p].kind = "map" => AllWithinCooldown(file[p].entries, clock)

\* C12, amended: right after the loads at start-up and right after each
\* save (a successful notification), every key of the map just loaded or
\* saved is less than cooldown_hours old, and the file just saved holds
\* that map.
C12_SweptAtLoadAndSave ==
    [][/\ (pc = "start" /\ pc' = "enter") =>
             \A p \in Properties : \A k \in DOMAIN notified'[p] :
                 clock' - fromisoformat(notified'[p][k]) < cooldown_hours
       /\ (pc = "sent" /\ success) =>
             /\ \A k \in DOMAIN notified'[Prop] :
                   clock' - fromisoformat(notified'[Prop][k]) < cooldown_hours
             /\ file'[Prop] = json_dumps(notified'[Prop])]_vars

\* C12 witness: a save has just swept a key that was delivered
\* cooldown_hours ago or earlier
C12_Witness ==
    /\ pc = "notify"
    /\ room_i > 1
    /\ success
    /\ LET saved == make_key(Available[room_i - 1])
       IN  /\ saved \in DOMAIN notified[Prop]
           /\ fromisoformat(notified[Prop][saved]) = clock
    /\ \E k \in DOMAIN delivered :
          /\ k[1] = Prop
          /\ k \notin DOMAIN notified[Prop]
          /\ clock - delivered[k] >= cooldown_hours

\* C13 as stated: once the store has written its file, a fresh instance
\* that loads the file decides should_notify, for every marked key, as the
\* instance that wrote it does at the same instant.
C13_Orig ==
    (store.op = "load" /\ ~store.fresh.raised) =>
        \A k \in DOMAIN store.marks :
            should_notify(store.fresh.notified, k, clock)
                = should_notify(store.notified, k, clock)

\* C14 as stated: facts that differ in property, room or dates have
\* distinct keys, and mark_notified(r) leaves the should_notify decision of
\* every other key as it was.
C14_Orig ==
    [][/\ \A r1, r2 \in StoreRooms : r1 # r2 => make_key(r1) # make_key(r2)
       /\ store'.op = "mark" =>
             \E r \in StoreRooms :
                 /\ make_key(r) \in DOMAIN store'.marks
                 /\ store'.marks[make_key(r)] = clock
                 /\ \A k \in StoreKeys \ {make_key(r)} :
                       should_notify(store'.notified, k, clock)
                           = should_notify(store.notified, k, clock)]_vars

\* C15: a CheckResult that carries an error has no rooms.
C15_ErrorMeansNoRooms ==
    result.error # None => result.rooms_checked = <<>>

\* C15 witness: check_availability has returned an error for a property
\* whose rooms were to be checked
C15_Witness ==
    /\ pc = "exit"
    /\ result.error \in ErrorTexts
    /\ result.property = Prop
    /\ Len(rooms_to_check(config, Prop)) > 0

\* The legacy entries under their new keys: the property, then the legacy
\* key's room and dates
HoldsLegacyEntries(f, entries) ==
    /\ f.kind = "map"
    /\ DOMAIN f.entries = {<<MIYAKOWASURE, k[1], k[2], k[3]>> : k \in DOMAIN entries}
    /\ \A k \in DOMAIN entries :
          f.entries[<<MIYAKOWASURE, k[1], k[2], k[3]>>] = entries[k]

RianFamily == {"rian", "rian-sansui", "rian_sansui", "sansui"}

\* The other aliases of the Miyamaso catalog
OtherMiyamasoAliases ==
    {"hinakura", "hina", "villa", "rian-maisonette", "rian_maisonette",
     "maisonette", "rian-japanese", "rian_japanese", "rian-jp"}

\* C20: parse_multiple returns exactly the two Rian Sansui variants for a
\* bare rian-family alias, exactly one room of the Miyamaso catalog for
\* every other Miyamaso alias, and nothing for every other text; capitals
\* and surrounding blanks make no difference.
C20_ParseMultiple ==
    cli.stage = "parse_multiple" =>
        IF cli.text.base \in RianFamily
        THEN Len(cli.rooms) = 2 /\ Range(cli.rooms) = {"25114", "25113"}
        ELSE IF cli.text.base \in OtherMiyamasoAliases
        THEN Len(cli.rooms) = 1 /\ cli.rooms[1] \in Range(MiyamasoRoom)
        ELSE cli.rooms = <<>>

\* C20 witness: a bare rian-family alias typed with capitals and blanks
\* has been expanded
C20_Witness ==
    /\ cli.stage = "parse_multiple"
    /\ cli.text = Text("sansui", TRUE, TRUE)
    /\ Len(cli.rooms) = 2

\* C16: once the command reaches the construction of the Config, the
\* Config is built exactly when nights >= 1, guests >= 1 and the interval
\* is at least 15 minutes; otherwise the command exits non-zero, no scraper
\* has been started and no state file has been read or written.
C16_ConfigValidation ==
    cli.stage \notin {"none", "args"} /\ cli.reached \in {"config", "run"} =>
        /\ cli.reached = "run" <=>
              (cli.args.nights >= 1 /\ cli.args.guests >= 1
                  /\ cli.args.interval >= 15)
        /\ cli.reached = "config" =>
              /\ cli.stage = "exit"
              /\ cli.exit_code # 0
              /\ cli.scrapers = 0
              /\ ~cli.state_access

\* C16 witness: an interval of 14 minutes, with nights and guests in
\* order, has been refused
C16_Witness ==
    /\ cli.stage = "exit"
    /\ cli.reached = "config"
    /\ cli.args.interval = 14
    /\ cli.args.nights >= 1
    /\ cli.args.guests >= 1

\* Whether a text is an alias of a property's room catalog
ResolvesUnder(prop, s) ==
    s.base \in DOMAIN (IF prop = MIYAKOWASURE THEN MiyakowasureMapping
                       ELSE MiyamasoMapping)

\* The --room option holds an alias that resolves under none of the
\* selected properties
HasUnknownRoom ==
    \E j \in 1..Len(cli.args.room) :
        \A p \in Range(cli.properties) : ~ResolvesUnder(p, cli.args.room[j])

\* C17 as stated: once the date and the properties are accepted, a --room
\* alias that resolves under none of the selected properties ends the
\* command non-zero before any scraper or state access.
C17_Orig ==
    (cli.stage \notin {"none", "args"}
        /\ cli.reached \in {"room", "config", "run"}
        /\ HasUnknownRoom)
    => (cli.stage = "exit" /\ cli.exit_code # 0 /\ cli.scrapers = 0
           /\ ~cli.state_access)

\* C18 as stated: a single run exits non-zero exactly when the check of at
\* least one property ended in a failure.
C18_Orig ==
    (cli.stage = "exit" /\ cli.reached = "run" /\ cli.args.once)
    => (cli.exit_code # 0 <=> cli.failures > 0)

\* C21: an alias that resolves to a room under one property's catalog
\* resolves to not-found under the other's (the two alias tables share no
\* alias), an alias of a table resolves to a room of that property's
\* catalog, and a text outside both tables resolves to not-found under
\* both.
C21_CrossCatalogIsolation ==
    /\ DOMAIN MiyakowasureMapping \cap DOMAIN MiyamasoMapping = {}
    /\ cli.stage = "parse_room" =>
          /\ ~(cli.found[MIYAKOWASURE] # None /\ cli.found[MIYAMASO] # None)
          /\ \A p \in Properties :
                IF ResolvesUnder(p, cli.text)
                THEN cli.found[p] \in Range(get_rooms(p))
                ELSE cli.found[p] = None

\* C21 witness: a Miyakowasure alias typed with capitals and blanks has
\* been resolved under both catalogs
C21_Witness ==
    /\ cli.stage = "parse_room"
    /\ cli.text = Text("sakura", TRUE, TRUE)
    /\ cli.found[MIYAKOWASURE] = "00001"
    /\ cli.found[MIYAMASO] = None

\* The entries of a property's rooms to check whose max_guests is smaller
\* than the guests requested
TooSmall(p) ==
    {i \in 1..Len(rooms_to_check(CliConfig, p)) :
        max_guests(rooms_to_check(CliConfig, p)[i]) < cli.args.guests}

\* C22: for every configured property, validate_guests_for_property
\* returns one warning for each entry of the rooms to check whose
\* max_guests is smaller than the guests requested, in the order of the
\* rooms, each naming that room's max_guests, and no other warning; the
\* warnings logged are these, property after property; and whatever the
\* warnings, the poll loop starts.
C22_GuestWarnings ==
    [][cli.stage = "loop" =>
          /\ cli'.stage = "looping"
          /\ \A p \in Range(cli.properties) :
                LET rooms == rooms_to_check(CliConfig, p)
                    w == cli'.warnings[p]
                IN  /\ Len(w) = Cardinality(TooSmall(p))
                    /\ \A j \in 1..Len(w) :
                          /\ w[j].max_guests = max_guests(w[j].room)
                          /\ w[j].max_guests < cli.args.guests
                          /\ \E i \in TooSmall(p) :
                                /\ rooms[i] = w[j].room
                                /\ Cardinality({i2 \in TooSmall(p) : i2 <= i}) = j
          /\ Len(cli'.logged) = Cardinality({<<p, i>> \in Properties \X (1..6) :
                                    p \in Range(cli.properties) /\ i \in TooSmall(p)})]_vars

\* C22 witness: the loop has started with 3 guests asked for the whole
\* Miyakowasure catalog: the three rooms for 2 guests are warned about,
\* the rooms for 3 and 4 guests are not
C22_Witness ==
    /\ cli.stage = "looping"
    /\ cli.args.guests = 3
    /\ cli.properties = <<MIYAKOWASURE>>
    /\ cli.room_filter[MIYAKOWASURE] = <<>>
    /\ Len(cli.warnings[MIYAKOWASURE]) = 3
    /\ \A j \in 1..3 : cli.warnings[MIYAKOWASURE][j].max_guests = 2

\* C23: in the Yadosys parser, when neither the room's display name nor
\* its room id appears in the content, the room is reported unavailable
\* with no price and no spots-left value, whatever markers and prices the
\* content holds.
C23_AbsentRoomUnavailable ==
    (parse.done /\ parse.engine = "yadosys"
        /\ ~RoomPresent(parse.content, parse.room))
    => (~parse.available /\ parse.price = NoInt /\ parse.spots_left = NoInt)

\* C23 witness: a page that names another room (the display name without
\* its parentheses), with a positive marker and a price inside the band,
\* has been parsed
C23_Witness ==
    /\ parse.done
    /\ parse.engine = "yadosys"
    /\ ~RoomPresent(parse.content, parse.room)
    /\ \E i, j, k \in 1..Len(parse.content) :
          /\ parse.content[i].kind = "name_noparens"
          /\ YadosysAvailable(parse.content[j])
          /\ parse.content[k].kind = "yen"
          /\ InBand("yadosys", parse.content[k].value)
    /\ ~parse.available

\* C24 as stated: a rendering session is released on every path: outside
\* a property's check (when the next check begins, when the loop sleeps,
\* and when the check has ended by a failure of the session start, the
\* browser launch, the check or the browser close) no browser and no
\* Playwright driver is open.
C24_Orig ==
    pc \notin {"check", "exit"} => (~playwright /\ ~browser)

\* C25 as stated: every configured property's check has completed before
\* the first notification of the cycle is attempted, and the sleep starts
\* only after the last notification attempt.
C25_Orig ==
    /\ pc \in {"sending", "sent"} => prop_i = Len(config.properties)
    /\ pc = "sleep" => prop_i = Len(config.properties)

\* C25, amended: a cycle handles the configured properties in order, each
\* property's check followed by that property's notifications: a
\* notification is attempted only for the property whose check has just
\* completed, its session closed; the next property's check begins only
\* after the last notification attempt of the current property; the sleep
\* starts only after the last property's last notification attempt.
C25_CheckThenNotifyPerProperty ==
    [][/\ pc' = "sending" =>
             /\ result'.property = config.properties[prop_i']
             /\ ~browser' /\ ~playwright'
             /\ pc \in {"notify", "sending"}
       /\ (pc' = "enter" /\ pc \in {"exit", "notify", "sending", "sent"}) =>
             /\ prop_i' = prop_i + 1
             /\ pc = "notify" => room_i > Len(Available)
             /\ pc \in {"exit", "notify"}
       /\ (pc' = "sleep" /\ pc # "sleep") =>
             /\ prop_i = Len(config.properties)
             /\ pc = "notify" => room_i > Len(Available)
             /\ pc \in {"exit", "notify"}
       /\ (pc = "sleep" /\ pc' = "enter") => prop_i' = 1]_vars

\* C25 witness: a notification for the second property is attempted after
\* one for the first property was delivered in the same cycle
C25_Witness ==
    /\ pc = "sending"
    /\ prop_i = 2
    /\ \E k \in DOMAIN delivered :
          /\ k[1] = config.properties[1]
          /\ delivered[k] = clock

\* C26: a delivery is attempted for a room only if the CheckResult of its
\* property has no error, the room is among the rooms checked and reported
\* available, a notification channel is configured and should_notify is
\* true for the room's key at that moment; and when no channel is
\* configured, no step changes a notified map or a state file.
C26_DeliveryOnlyWhenDue ==
    /\ [](pc = "sending" =>
             /\ result.error = None
             /\ result.property = Prop
             /\ \E i \in 1..Len(result.rooms_checked) :
                   /\ result.rooms_checked[i] = Available[room_i]
                   /\ result.rooms_checked[i].available
             /\ config.ntfy_topic
             /\ should_notify(notified[Prop], SendingKey, clock))
    /\ [][~config.ntfy_topic => (notified' = notified /\ file' = file)]_vars

\* C26 witness: a delivery is attempted for a key whose earlier mark, still
\* in the map, is older than cooldown_hours, while another available room
\* of the same check was passed over
C26_Witness ==
    /\ pc = "sending"
    /\ SendingKey \in DOMAIN notified[Prop]
    /\ clock - fromisoformat(notified[Prop][SendingKey]) > cooldown_hours
    /\ room_i > 1

\* The rooms the scraper driven directly is to check
BanRooms == rooms_to_check(scrape.config, MIYAMASO)

NamedBy(p, s) ==
    IF p = MIYAMASO /\ s.base \in RianFamily
    THEN {"25114", "25113"}
    ELSE IF p = MIYAMASO /\ s.base \in DOMAIN MiyamasoMapping
    THEN {MiyamasoMapping[s.base]}
    ELSE IF p = MIYAKOWASURE /\ s.base \in DOMAIN MiyakowasureMapping
    THEN {MiyakowasureMapping[s.base]}
    ELSE {}

\* The rooms of a property's catalog that the --room option names
NamedRooms(p) ==
    UNION {NamedBy(p, cli.args.room[j]) : j \in 1..Len(cli.args.room)}

\* C28 as stated: when a --room filter is given and a selected property's
\* catalog recognises at least one of its aliases, only the rooms the
\* filter names are checked for that property, not its full catalog; the
\* full catalog is checked when no room filter is supplied.
C28_Orig ==
    (cli.stage \notin {"none", "args"} /\ cli.reached = "run") =>
        \A p \in Range(cli.properties) :
            /\ NamedRooms(p) # {} =>
                  /\ Range(rooms_to_check(CliConfig, p)) \subseteq NamedRooms(p)
                  /\ rooms_to_check(CliConfig, p) # get_rooms(p)
            /\ cli.args.room = <<>> =>
                  rooms_to_check(CliConfig, p) = get_rooms(p)

\* C29 as stated: the expiry sweep never changes a notification decision:
\* for every key, should_notify is the same immediately before and
\* immediately after a save(), and after a load() of the file just saved,
\* at the same instant; also for an entry exactly cooldown_hours old.
C29_Orig ==
    [][/\ store'.op = "save" =>
             \A k \in StoreKeys :
                 should_notify(store'.notified, k, clock')
                     = should_notify(store.notified, k, clock)
       /\ (store.op = "save" /\ store'.op = "load") =>
             \A k \in StoreKeys :
                 should_notify(store'.fresh.notified, k, clock')
                     = should_notify(store.notified, k, clock)]_vars

\* C30 as stated: for Miyamaso, the room filter the check command builds
\* from a single alias equals MiyamasoRoom.parse_multiple of that alias
\* (so every bare rian-family alias is expanded to both variants), and
\* holds no room twice.
C30_Orig ==
    (/\ cli.stage \notin {"none", "args"}
     /\ cli.reached = "run"
     /\ MIYAMASO \in Range(cli.properties)
     /\ Len(cli.args.room) = 1)
    => /\ cli.room_filter[MIYAMASO] = parse_multiple(cli.args.room[1])
       /\ \A i, j \in 1..Len(cli.room_filter[MIYAMASO]) :
             cli.room_filter[MIYAMASO][i] = cli.room_filter[MIYAMASO][j] => i = j

====
